---- MODULE Spec2Model ----
(***************************************************************************)
(* PMG intake form (src/src/App.tsx): the wizard state kept by App, the    *)
(* per-type document orchestrators (template fill or jsPDF fallback), the  *)
(* two generation passes (generateZip, generateSinglePacket) and the       *)
(* packet assembler mergeToPacket.                                         *)
(*                                                                         *)
(* Three specifications share the variables:                               *)
(*   SpecUI    the wizard: navigation, contact editing, re-render;         *)
(*   Spec      the generation passes on a record drawn from GenRecords;    *)
(*   SpecMerge mergeToPacket on document sequences drawn from a bounded    *)
(*             set, followed by the caller's continuation;                 *)
(*   SpecFill  one template filler or fallback builder applied to a record,*)
(*             a debug flag and a field map drawn from bounded sets, with  *)
(*             the draw operations it issues.                              *)
(***************************************************************************)
EXTENDS Integers, Sequences, FiniteSets, TLC

VARIABLES
    step,      \* useState(1): the wizard step
    data,      \* useState(emptyData): the intake record held by React
    view,      \* the step and record captured by the closures of the last render
    pass,      \* the generation pass in flight (generateZip / generateSinglePacket)
    mrg,       \* the activation of mergeToPacket
    informed,  \* whether a message about a failed pass has been shown to the user
    env,       \* the module-level values read by the fillers: DEBUG and the field maps
    fill       \* one call of a template filler or of a fallback builder, and its draws

vars == <<step, data, view, pass, mrg, informed, env, fill>>

---------------------------------------------------------------------------
(* Bounds *)

\* Longest authorizedContacts list the wizard is let to build
MaxContacts == 2
\* Longest document sequence handed to mergeToPacket in SpecMerge
MaxDocs == 3
\* Most pages of one input document in SpecMerge
MaxPages == 2
\* Pages of a deployed template PDF (the files are not part of the sources)
TemplatePages == 2

\* Longest authorizedContacts list of a record handed to a filler in SpecFill
MaxFillContacts == 4
\* Most entries taken out of a field map in SpecFill
MaxMissing == 1

\* Values typed into a contact field
Strs == {"", "a"}

---------------------------------------------------------------------------
(* Program constants *)

\* const total = 6
total == 6
\* new jsPDF() holds one page and no fallback builder adds another
FallbackPages == 1

DocTypes == 1..6

DocName ==
    <<"Registration", "HealthHistory", "FinancialPolicy",
      "ReleaseInfo", "PrivacyAck", "CodeOfConduct">>

---------------------------------------------------------------------------
(* Field maps: key -> anchor.  w = 0 stands for an anchor that declares no   *)
(* width (the code reads it as `f.w || <default>`).                          *)

A(x, y) == [x |-> x, y |-> y, w |-> 0]

AW(x, y, w) == [x |-> x, y |-> y, w |-> w]

MAP_REGISTRATION ==
    [name |-> A(120, 700), dob |-> A(120, 682), sex |-> A(370, 682),
     marital |-> A(470, 682), ssn |-> A(470, 700),
     email |-> AW(120, 664, 300), phones |-> AW(120, 646, 420),
     address |-> AW(120, 628, 420), employer |-> AW(120, 610, 420),
     insuredPerson |-> AW(160, 556, 200), insuredDob |-> A(440, 556),
     primaryIns |-> AW(160, 538, 260), memberId |-> A(120, 520),
     groupNo |-> A(320, 520), copay |-> A(470, 520),
     emergencyName |-> A(140, 470), emergencyRelation |-> A(380, 470),
     emergencyPhones |-> AW(140, 452, 360),
     sign |-> AW(90, 120, 180), signDate |-> A(320, 120)]

MAP_HHX ==
    [name |-> A(120, 700), dob |-> A(470, 700),
     medicalProblems |-> AW(50, 640, 500), surgeries |-> AW(50, 580, 500),
     hospitalizations |-> AW(50, 520, 500), medications |-> AW(50, 460, 500),
     allergies |-> AW(50, 400, 500), lifestyle1 |-> AW(50, 340, 500),
     other |-> AW(50, 280, 500),
     sign |-> A(90, 120), signDate |-> A(320, 120)]

MAP_FP ==
    [initials |-> A(80, 300), sign |-> A(90, 120), signDate |-> A(320, 120)]

MAP_ROI ==
    [spouse |-> A(150, 620), children |-> A(340, 620),
     vmHome |-> A(150, 600), vmCell |-> A(230, 600), vmWork |-> A(310, 600),
     other |-> AW(100, 582, 420),
     auth1 |-> AW(50, 540, 500), auth2 |-> AW(50, 524, 500),
     auth3 |-> AW(50, 508, 500),
     sign |-> A(90, 120), signDate |-> A(320, 120)]

MAP_HIPAA ==
    [ack |-> AW(60, 640, 500), sign |-> A(90, 120), signDate |-> A(320, 120)]

MAP_COC ==
    [ack |-> A(80, 300), sign |-> A(90, 120), signDate |-> A(320, 120)]

\* The six maps as declared, by document type
DeclaredMaps ==
    <<MAP_REGISTRATION, MAP_HHX, MAP_FP, MAP_ROI, MAP_HIPAA, MAP_COC>>

\* The module-level values a filler reads: DEBUG, evaluated once when the
\* module is loaded, and the field maps, kept as the set of <<type, key>>
\* entries taken out of the declared maps (none in the maps as shipped).
ProdEnv == [DEBUG |-> FALSE, missing |-> {}]

Envs == {[DEBUG |-> dbg, missing |-> {}] : dbg \in BOOLEAN}

\* MAP_<type> as the filler of type t finds it
MapOf(e, t) ==
    LET m == DeclaredMaps[t]
    IN  [k \in {j \in DOMAIN m : <<t, j>> \notin e.missing} |-> m[k]]

envAfter_toggled(e) == [e EXCEPT !.DEBUG = ~e.DEBUG]

\* What a fill or a fallback function leaves in DEBUG and in the field maps
envAfter(e) == e

---------------------------------------------------------------------------
(* Data model *)

emptyContact == [name |-> "", relationship |-> "", phone |-> ""]

emptyData ==
    [signatureDataUrl |-> "", authorizedContacts |-> <<emptyContact>>]

\* A signature payload: "" (none), "png" (a data URL that decodes as a PNG),
\* "bad" (a non-empty string that does not decode as an image).
Sigs == {"", "png", "bad"}

IsPng(s) == s = "png"

GenRecords ==
    {[signatureDataUrl |-> s, authorizedContacts |-> <<emptyContact>>] : s \in Sigs}

\* The records and flags the generation passes are followed on: every
\* signature payload with the flag off, and the flag on with a PNG signature
GenInputs ==
    {<<r, e>> \in GenRecords \X Envs : e.DEBUG => IsPng(r.signatureDataUrl)}

Min(a, b) == IF a < b THEN a ELSE b

Max(a, b) == IF a > b THEN a ELSE b

\* setData(d => ({ ...d, ...patch }))
update(d, patch) ==
    [f \in DOMAIN d |-> IF f \in DOMAIN patch THEN patch[f] ELSE d[f]]

\* Array.prototype.slice(0, -1)
sliceLast(s) == IF Len(s) = 0 THEN <<>> ELSE SubSeq(s, 1, Len(s) - 1)

\* ac[i] = { ...ac[i], [field]: v } on a copy of the list
setContact(ac, i, field, v) ==
    [ac EXCEPT ![i] = [g \in DOMAIN ac[i] |-> IF g = field THEN v ELSE ac[i][g]]]

CanRemove_always(ac) == Len(ac) >= 1

\* {data.authorizedContacts.length > 1 && <button>Remove last</button>}
CanRemove(ac) == Len(ac) > 1

---------------------------------------------------------------------------
(* Documents *)

NoDoc ==
    [ok |-> FALSE, t |-> 0, via |-> "none", pages |-> <<>>, sig |-> FALSE,
     boxes |-> FALSE, from |-> emptyData]

PagesOf(t, n) == [j \in 1..n |-> <<t, j>>]

\* fetchTemplate: null when the response is not OK or the fetch throws,
\* otherwise the bytes of the response, whatever they are.
FetchOutcomes == {"missing", "neterr", "pdf", "junk"}

fetchTemplate(o) == IF o \in {"missing", "neterr"} THEN "null" ELSE o

\* The six fill...WithTemplate functions after their fetch: PDFDocument.load
\* outside any try, the writes (with their calibration rectangles when DEBUG
\* is set), then the signature inside try {} catch {}.
fillLoaded(t, d, bytes, e) ==
    IF bytes = "junk"
    THEN [ret |-> "threw", err |-> "load", doc |-> NoDoc]
    ELSE [ret |-> "bytes", err |-> "none",
          doc |-> [ok |-> TRUE, t |-> t, via |-> "template",
                   pages |-> PagesOf(t, TemplatePages),
                   sig |-> (d.signatureDataUrl # "" /\ IsPng(d.signatureDataUrl)),
                   boxes |-> e.DEBUG,
                   from |-> d]]

\* The six build...PDF_fallback functions: doc.addImage is not guarded.
buildFallback(t, d) ==
    IF d.signatureDataUrl # "" /\ ~IsPng(d.signatureDataUrl)
    THEN [threw |-> TRUE, err |-> "addImage", doc |-> NoDoc]
    ELSE [threw |-> FALSE, err |-> "none",
          doc |-> [ok |-> TRUE, t |-> t, via |-> "fallback",
                   pages |-> PagesOf(t, FallbackPages),
                   sig |-> (d.signatureDataUrl # ""),
                   boxes |-> FALSE,
                   from |-> d]]

UseFallback_always(ret) == TRUE

\* (await fill(data)) || fallback: a Uint8Array is truthy, null is not
UseFallback(ret) == ret = "null"

recordAfter_cleared(d) == [d EXCEPT !.signatureDataUrl = ""]

\* What a fill or a fallback function leaves in the record it was given
recordAfter(d) == d

IdleBuild ==
    [pc |-> "idle", got |-> "none", ret |-> "pending", fb |-> FALSE,
     err |-> "none", doc |-> NoDoc]

\* build<Type>: the orchestrator once its fill has settled with b.ret
orchestrate(t, d, b) ==
    IF b.ret = "threw"
    THEN [b EXCEPT !.pc = "failed"]
    ELSE IF UseFallback(b.ret)
         THEN LET r == buildFallback(t, d)
              IN  [b EXCEPT !.fb = TRUE,
                            !.pc = IF r.threw THEN "failed" ELSE "done",
                            !.err = r.err,
                            !.doc = r.doc]
         ELSE [b EXCEPT !.pc = "done"]

\* build<Type>(d) run from its call to its end with nothing in between: the
\* fetch answers o, then the fill and, when the fill returned null, the fallback
soloBuild(t, d, o, e) ==
    LET b0 == [IdleBuild EXCEPT !.pc = "fetch", !.got = o]
    IN  IF fetchTemplate(o) = "null"
        THEN orchestrate(t, d, [b0 EXCEPT !.ret = "null"])
        ELSE LET r == fillLoaded(t, d, o, e)
             IN  orchestrate(t, d, [b0 EXCEPT !.pc = "fill", !.ret = r.ret,
                                              !.err = r.err, !.doc = r.doc])

PromiseAllPut_arrival(vals, t, doc) ==
    LET free == {i \in 1..Len(vals) : vals[i] = NoDoc}
        i == CHOOSE x \in free : \A y \in free : x <= y
    IN  [vals EXCEPT ![i] = doc]

\* Promise.all stores a fulfilled value at the index of its promise
PromiseAllPut(vals, t, doc) == [vals EXCEPT ![t] = doc]

Pending(b) == b.pc \in {"fetch", "fill"}

onSettle_skipFailed(p, t) ==
    LET b == p.b[t] IN
    IF p.kind = "zip" /\ ~Pending(b)
    THEN [p EXCEPT !.vals = IF b.pc = "done" THEN Append(p.vals, b.doc) ELSE p.vals,
                   !.b = IF t < 6
                         THEN [p.b EXCEPT ![t + 1] = [IdleBuild EXCEPT !.pc = "fetch"]]
                         ELSE p.b]
    ELSE IF p.kind = "packet" /\ b.pc = "done"
         THEN [p EXCEPT !.vals = PromiseAllPut(p.vals, t, b.doc)]
         ELSE p

\* The caller's continuation when build t has settled
onSettle(p, t) ==
    LET b == p.b[t] IN
    IF p.kind = "zip"
    THEN IF b.pc = "done"
         THEN [p EXCEPT !.vals = Append(p.vals, b.doc),
                        !.b = IF t < 6
                              THEN [p.b EXCEPT ![t + 1] = [IdleBuild EXCEPT !.pc = "fetch"]]
                              ELSE p.b]
         ELSE IF b.pc = "failed"
              THEN [p EXCEPT !.pc = "failed", !.err = "build"]
              ELSE p
    ELSE IF b.pc = "done"
         THEN [p EXCEPT !.vals = PromiseAllPut(p.vals, t, b.doc),
                        !.ooo = p.ooo \/ (\E u \in 1..(t - 1) : Pending(p.b[u]))]
         ELSE IF b.pc = "failed" /\ p.pc = "building"
              THEN [p EXCEPT !.pc = "failed", !.err = "build"]
              ELSE p

IdlePass ==
    [kind |-> "none", pc |-> "idle", trig |-> emptyData, snap |-> emptyData,
     env0 |-> ProdEnv,
     b |-> [t \in DocTypes |-> IdleBuild], vals |-> <<>>, ooo |-> FALSE,
     file |-> [kind |-> "none", pages |-> <<>>, entries |-> <<>>],
     err |-> "none"]

IdleMerge == [pc |-> "idle", docs |-> <<>>, k |-> 1, out |-> <<>>]

IdleFill == [pc |-> "idle"]

---------------------------------------------------------------------------
(* mergeToPacket *)

appendPages_front(out, pages) == pages \o out

\* pages.forEach(p => out.addPage(p))
appendPages(out, pages) == out \o pages

mergeIter_skip(m) ==
    IF ~m.docs[m.k].ok
    THEN [m EXCEPT !.k = m.k + 1]
    ELSE [m EXCEPT !.out = appendPages(m.out, m.docs[m.k].pages), !.k = m.k + 1]

\* One iteration of the for loop: load, copyPages, addPage
mergeIter(m) ==
    IF ~m.docs[m.k].ok
    THEN [m EXCEPT !.pc = "failed", !.out = <<>>]
    ELSE [m EXCEPT !.out = appendPages(m.out, m.docs[m.k].pages), !.k = m.k + 1]

---------------------------------------------------------------------------
(* Strings and the whole intake record *)

\* Stand-ins for the non-ASCII characters of the source
emDash == "{em-dash}"

checkGlyph == "{check}"

bullet == "{bullet}"

enDash == "{en-dash}"

\* The value of a property that is not there
undefined == "{undefined}"

\* An object without properties: {}
emptyObject == <<>>

truthy(v) == v # "" /\ v # undefined

\* ${v} in a template literal
S(v) == IF v = undefined THEN "undefined" ELSE v

\* v || alt, for a string v
or(v, alt) == IF truthy(v) THEN v ELSE alt

\* n || alt, for a number n
orNum(n, alt) == IF n # 0 THEN n ELSE alt

\* c?.f and c.f for an object c
get(c, f) == IF f \in DOMAIN c THEN c[f] ELSE undefined

itemOrEmpty_last(list, i) ==
    IF i + 1 <= Len(list) THEN list[i + 1]
    ELSE IF list # <<>> THEN list[Len(list)] ELSE emptyObject

\* list[i] || {}, i counted from 0
itemOrEmpty(list, i) == IF i + 1 <= Len(list) THEN list[i + 1] ELSE emptyObject

RECURSIVE trimStart(_)
trimStart(s) ==
    IF Len(s) > 0 /\ SubSeq(s, 1, 1) = " "
    THEN trimStart(SubSeq(s, 2, Len(s)))
    ELSE s

RECURSIVE trimEnd(_)
trimEnd(s) ==
    IF Len(s) > 0 /\ SubSeq(s, Len(s), Len(s)) = " "
    THEN trimEnd(SubSeq(s, 1, Len(s) - 1))
    ELSE s

\* String.prototype.trim
trim(s) == trimEnd(trimStart(s))

\* emptyData with all its properties
emptyIntake ==
    [firstName |-> "", lastName |-> "", middle |-> "", suffix |-> "",
     dob |-> "", sex |-> "", maritalStatus |-> "", ssn |-> "",
     email |-> "", phoneCell |-> "", phoneHome |-> "",
     address |-> "", city |-> "", state |-> "", zip |-> "",
     employer |-> "", employerPhone |-> "", preferredContact |-> "",
     race |-> "", ethnicity |-> "", language |-> "",
     insuredPerson |-> "", insuredDob |-> "", primaryInsurance |-> "",
     memberId |-> "", groupNo |-> "", copay |-> "",
     relationshipToSubscriber |-> "", secondaryInsurance |-> "",
     emergencyName |-> "", emergencyRelation |-> "",
     emergencyHome |-> "", emergencyWork |-> "",
     medicalProblems |-> "", surgeries |-> "", hospitalizations |-> "",
     medications |-> "", allergies |-> "",
     exerciseLevel |-> "", diet |-> "", alcohol |-> "", tobacco |-> "",
     drugs |-> "",
     mentalHealth |-> "", womensHealth |-> "", mensHealth |-> "",
     otherProblems |-> "",
     mayContact |-> [spouse |-> FALSE, children |-> FALSE,
                     phones |-> [home |-> FALSE, cell |-> FALSE, work |-> FALSE],
                     other |-> ""],
     authorizedContacts |-> <<emptyContact>>,
     initialPolicies |-> FALSE, ackPrivacy |-> FALSE, ackCodeOfConduct |-> FALSE,
     signatureDataUrl |-> "", signatureDate |-> ""]

---------------------------------------------------------------------------
(* Draw operations *)

\* page.drawText(s, { x, y, maxWidth: w }) and doc.text(s, x, y, { maxWidth: w });
\* w = 0 when no maxWidth is passed
Text(x, y, s, w) == [op |-> "text", x |-> x, y |-> y, s |-> s, w |-> w, h |-> 0]

\* page.drawRectangle({ x, y, width: w, height: h, ... })
Rect(x, y, w, h) == [op |-> "rect", x |-> x, y |-> y, s |-> "", w |-> w, h |-> h]

\* page.drawImage(png, { x, y, width: w, height: h }) and doc.addImage
Image(x, y, w, h) == [op |-> "image", x |-> x, y |-> y, s |-> "", w |-> w, h |-> h]

drawBox_always(e, x, y, w, h) == <<Rect(x, y - 2, w, h)>>

\* drawBox(page, x, y, w, h): nothing unless DEBUG
drawBox(e, x, y, w, h) ==
    IF ~e.DEBUG THEN <<>> ELSE <<Rect(x, y - 2, w, h)>>

Ok(ops) == [threw |-> FALSE, ops |-> ops]

\* A read of .x on a map entry that is not there
Threw == [threw |-> TRUE, ops |-> <<>>]

\* The draws of a sequence of calls, up to the first one that throws
RECURSIVE run(_)
run(rs) ==
    IF rs = <<>> THEN Ok(<<>>)
    ELSE IF rs[1].threw THEN [threw |-> TRUE, ops |-> rs[1].ops]
    ELSE LET r == run(Tail(rs))
         IN  [threw |-> r.threw, ops |-> rs[1].ops \o r.ops]

---------------------------------------------------------------------------
(* Template fillers, after their template is loaded.  m is the type's field *)
(* map as found, e the module-level values, d the record.                   *)

\* write(key, text) of fillRegistrationWithTemplate: `if (!f) return`
write(m, e, key, text) ==
    IF key \notin DOMAIN m THEN Ok(<<>>)
    ELSE LET f == m[key]
         IN  Ok(drawBox(e, f.x, f.y, 140, 14)
                \o <<Text(f.x, f.y, or(text, ""), orNum(f.w, 200))>>)

\* w(k, t) of fillHealthHistoryWithTemplate: f.x is read whatever f is
w(m, e, k, t) ==
    IF k \notin DOMAIN m THEN Threw
    ELSE LET f == m[k]
         IN  Ok(drawBox(e, f.x, f.y, orNum(f.w, 300), 14)
                \o <<Text(f.x, f.y, or(t, ""), orNum(f.w, 300))>>)

\* if (on) { drawBox(page, MAP.k.x, MAP.k.y); page.drawText(checkGlyph, ...) }
\* (Financial Policy; Code of Conduct has `if (DEBUG) drawBox`, the same draws)
mark(m, e, on, k) ==
    IF ~on THEN Ok(<<>>)
    ELSE IF k \notin DOMAIN m THEN Threw
    ELSE Ok(drawBox(e, m[k].x, m[k].y, 140, 14)
            \o <<Text(m[k].x, m[k].y, checkGlyph, 0)>>)

\* check(on, MAP_ROI.k.x, MAP_ROI.k.y) of fillReleaseInfoWithTemplate
check(m, e, on, k) ==
    IF k \notin DOMAIN m THEN Threw
    ELSE Ok((IF on THEN <<Text(m[k].x, m[k].y, checkGlyph, 0)>> ELSE <<>>)
            \o (IF e.DEBUG THEN drawBox(e, m[k].x, m[k].y, 12, 12) ELSE <<>>))

\* page.drawText(s, { x: MAP.k.x, y: MAP.k.y, maxWidth: MAP.k.w })
drawAt(m, k, s) ==
    IF k \notin DOMAIN m THEN Threw
    ELSE Ok(<<Text(m[k].x, m[k].y, s, m[k].w)>>)

\* if (data.signatureDataUrl) { try { embedPng; drawImage at MAP.sign } catch {} }
drawSignature(m, d) ==
    IF truthy(d.signatureDataUrl) /\ IsPng(d.signatureDataUrl) /\ "sign" \in DOMAIN m
    THEN Ok(<<Image(m["sign"].x, m["sign"].y, 180, 40)>>)
    ELSE Ok(<<>>)

\* page.drawText(data.signatureDate || "", { x: MAP.signDate.x, y: MAP.signDate.y })
drawSignDate(m, d) ==
    IF "signDate" \notin DOMAIN m THEN Threw
    ELSE Ok(<<Text(m["signDate"].x, m["signDate"].y, or(d.signatureDate, ""), 0)>>)

fillRegistrationWithTemplate(d, e) ==
    LET m == MapOf(e, 1) IN
    run(<<
      write(m, e, "name",
            trim(S(d.lastName) \o ", " \o S(d.firstName) \o " " \o or(d.middle, ""))),
      write(m, e, "dob", d.dob),
      write(m, e, "sex", d.sex),
      write(m, e, "marital", d.maritalStatus),
      write(m, e, "ssn", d.ssn),
      write(m, e, "email", d.email),
      write(m, e, "phones",
            or(d.phoneCell, "") \o " (cell)  " \o or(d.phoneHome, "") \o " (home)"),
      write(m, e, "address",
            trim(S(d.address) \o ", " \o S(d.city) \o ", " \o S(d.state) \o " " \o S(d.zip))),
      write(m, e, "employer", trim(S(d.employer) \o "  |  " \o S(d.employerPhone))),
      write(m, e, "insuredPerson", d.insuredPerson),
      write(m, e, "insuredDob", d.insuredDob),
      write(m, e, "primaryIns", d.primaryInsurance),
      write(m, e, "memberId", d.memberId),
      write(m, e, "groupNo", d.groupNo),
      write(m, e, "copay", IF truthy(d.copay) THEN "$" \o S(d.copay) ELSE ""),
      write(m, e, "emergencyName", d.emergencyName),
      write(m, e, "emergencyRelation", d.emergencyRelation),
      write(m, e, "emergencyPhones",
            trim(S(d.emergencyHome) \o " / " \o S(d.emergencyWork))),
      drawSignature(m, d),
      drawSignDate(m, d) >>)

fillHealthHistoryWithTemplate(d, e) ==
    LET m == MapOf(e, 2) IN
    run(<<
      w(m, e, "name", S(d.lastName) \o ", " \o S(d.firstName)),
      w(m, e, "dob", d.dob),
      w(m, e, "medicalProblems", d.medicalProblems),
      w(m, e, "surgeries", d.surgeries),
      w(m, e, "hospitalizations", d.hospitalizations),
      w(m, e, "medications", d.medications),
      w(m, e, "allergies", d.allergies),
      w(m, e, "lifestyle1",
        "Exercise: " \o or(d.exerciseLevel, emDash) \o "; Diet: " \o or(d.diet, emDash)
        \o "; Alcohol: " \o or(d.alcohol, emDash) \o "; Tobacco: " \o or(d.tobacco, emDash)
        \o "; Drugs: " \o or(d.drugs, emDash)),
      w(m, e, "other", d.otherProblems),
      drawSignature(m, d),
      drawSignDate(m, d) >>)

fillFinancialPolicyWithTemplate(d, e) ==
    LET m == MapOf(e, 3) IN
    run(<< mark(m, e, d.initialPolicies, "initials"),
           drawSignature(m, d),
           drawSignDate(m, d) >>)

fmt_untrimmed(c) ==
    or(get(c, "name"), "") \o " | " \o or(get(c, "relationship"), "")
    \o " | " \o or(get(c, "phone"), "")

\* fmt(c) of fillReleaseInfoWithTemplate
fmt(c) ==
    trim(or(get(c, "name"), "") \o " | " \o or(get(c, "relationship"), "")
         \o " | " \o or(get(c, "phone"), ""))

fillReleaseInfoWithTemplate(d, e) ==
    LET m == MapOf(e, 4)
        list == d.authorizedContacts
    IN
    run(<<
      check(m, e, d.mayContact.spouse, "spouse"),
      check(m, e, d.mayContact.children, "children"),
      check(m, e, d.mayContact.phones.home, "vmHome"),
      check(m, e, d.mayContact.phones.cell, "vmCell"),
      check(m, e, d.mayContact.phones.work, "vmWork"),
      drawAt(m, "other", or(d.mayContact.other, "")),
      drawAt(m, "auth1", fmt(itemOrEmpty(list, 0))),
      drawAt(m, "auth2", fmt(itemOrEmpty(list, 1))),
      drawAt(m, "auth3", fmt(itemOrEmpty(list, 2))),
      drawSignature(m, d),
      drawSignDate(m, d) >>)

ackLine(d) ==
    IF d.ackPrivacy
    THEN "I acknowledge I received or had the opportunity to review the Notice of Privacy Practices."
    ELSE "Acknowledgement pending (not checked)."

fillPrivacyAckWithTemplate(d, e) ==
    LET m == MapOf(e, 5) IN
    run(<<
      IF "ack" \notin DOMAIN m THEN Threw
      ELSE Ok((IF e.DEBUG THEN drawBox(e, m["ack"].x, m["ack"].y, m["ack"].w, 28) ELSE <<>>)
              \o <<Text(m["ack"].x, m["ack"].y, ackLine(d), m["ack"].w)>>),
      drawSignature(m, d),
      drawSignDate(m, d) >>)

fillCodeOfConductWithTemplate(d, e) ==
    LET m == MapOf(e, 6) IN
    run(<< mark(m, e, d.ackCodeOfConduct, "ack"),
           drawSignature(m, d),
           drawSignDate(m, d) >>)

\* fill<Type>WithTemplate(d) once PDFDocument.load has returned
fillWithTemplate(t, d, e) ==
    CASE t = 1 -> fillRegistrationWithTemplate(d, e)
      [] t = 2 -> fillHealthHistoryWithTemplate(d, e)
      [] t = 3 -> fillFinancialPolicyWithTemplate(d, e)
      [] t = 4 -> fillReleaseInfoWithTemplate(d, e)
      [] t = 5 -> fillPrivacyAckWithTemplate(d, e)
      [] t = 6 -> fillCodeOfConductWithTemplate(d, e)

---------------------------------------------------------------------------
(* Fallback builders (jsPDF).  The y of each draw is the value of the       *)
(* builder's running `y` at that statement; doc.line and the font sizes are *)
(* left out.                                                                *)

\* line(doc, y, label, value)
line(y, label, value) ==
    <<Text(14, y, label, 0)>>
    \o (IF truthy(value) THEN <<Text(100, y, value, 95)>> ELSE <<>>)

\* pdfHeader(doc, title)
pdfHeader(title) ==
    <<Text(14, 18, "Prestige Medical Group", 0), Text(14, 26, title, 0)>>

hasSignature_always(d) == TRUE

\* if (data.signatureDataUrl)
hasSignature(d) == truthy(d.signatureDataUrl)

\* The signature block closing every fallback builder: doc.addImage is not
\* inside a try
signatureBlock(d, y) ==
    IF hasSignature(d)
    THEN IF IsPng(d.signatureDataUrl)
         THEN Ok(<<Image(14, y, 60, 18),
                   Text(14, y + 24, "Signed: " \o or(d.signatureDate, ""), 0)>>)
         ELSE Threw
    ELSE Ok(<<Text(14, y, "Signature: __________________________  Date: ____________", 0)>>)

\* `Patient: ${data.lastName}, ${data.firstName} ${data.middle || ""}`
patientLine(d) ==
    "Patient: " \o S(d.lastName) \o ", " \o S(d.firstName) \o " " \o or(d.middle, "")

buildRegistrationPDF_fallback(d) ==
    run(<<
      Ok(pdfHeader("Registration Form (POC)")),
      Ok(line(36, patientLine(d), undefined)),
      Ok(line(44, "DOB:", d.dob)),
      Ok(line(52, "Sex:", d.sex)),
      Ok(line(60, "Marital Status:", d.maritalStatus)),
      Ok(line(68, "SSN:", d.ssn)),
      Ok(line(76, "Email:", d.email)),
      Ok(line(84, "Phones:",
              or(d.phoneCell, "") \o " (cell)  " \o or(d.phoneHome, "") \o " (home)")),
      Ok(line(92, "Address:",
              S(d.address) \o ", " \o S(d.city) \o ", " \o S(d.state) \o " " \o S(d.zip))),
      Ok(line(100, "Employer:", S(d.employer) \o "  |  " \o S(d.employerPhone))),
      Ok(<<Text(14, 112, "Insurance", 0)>>),
      Ok(line(118, "Person Responsible:", d.insuredPerson)),
      Ok(line(126, "DOB:", d.insuredDob)),
      Ok(line(134, "Primary Insurance:", d.primaryInsurance)),
      Ok(line(142, "Member ID:", d.memberId)),
      Ok(line(150, "Group #:", d.groupNo)),
      Ok(line(158, "Co-pay:", IF truthy(d.copay) THEN "$" \o S(d.copay) ELSE "")),
      Ok(<<Text(14, 170, "Emergency Contact", 0)>>),
      Ok(line(176, "Name:", d.emergencyName)),
      Ok(line(184, "Relationship:", d.emergencyRelation)),
      Ok(line(192, "Home/Work:", S(d.emergencyHome) \o " / " \o S(d.emergencyWork))),
      signatureBlock(d, 210) >>)

buildHealthHistoryPDF_fallback(d) ==
    run(<<
      Ok(pdfHeader("Health History Questionnaire (POC " \o enDash \o " condensed)")),
      Ok(line(36, patientLine(d), undefined)),
      Ok(line(44, "DOB:", d.dob)),
      Ok(<<Text(14, 56, "Medical Problems (dx)", 0),
           Text(14, 62, or(d.medicalProblems, emDash), 180),
           Text(14, 80, "Surgeries", 0),
           Text(14, 86, or(d.surgeries, emDash), 180),
           Text(14, 104, "Hospitalizations", 0),
           Text(14, 110, or(d.hospitalizations, emDash), 180),
           Text(14, 128, "Medications", 0),
           Text(14, 134, or(d.medications, emDash), 180),
           Text(14, 152, "Allergies", 0),
           Text(14, 158, or(d.allergies, emDash), 180),
           Text(14, 176, "Lifestyle", 0),
           Text(14, 182, "Exercise: " \o or(d.exerciseLevel, emDash), 0),
           Text(14, 188, "Diet: " \o or(d.diet, emDash), 0),
           Text(14, 194, "Alcohol: " \o or(d.alcohol, emDash), 0),
           Text(14, 200, "Tobacco: " \o or(d.tobacco, emDash), 0),
           Text(14, 206, "Drugs: " \o or(d.drugs, emDash), 0),
           Text(14, 218, "Other Problems / Symptoms", 0),
           Text(14, 224, or(d.otherProblems, emDash), 180)>>),
      signatureBlock(d, 242) >>)

buildFinancialPolicyPDF_fallback(d) ==
    run(<<
      Ok(pdfHeader("Financial Policy & Consent to Treat (POC acknowledgment)")),
      Ok(<<Text(14, 36, bullet \o " I agree to pay my portion (deductible, copay/coinsurance) and any non-covered services.", 180),
           Text(14, 44, bullet \o " I understand missed-appointment fees may apply and balances >30 days may accrue finance fees.", 180),
           Text(14, 52, bullet \o " I authorize release of medical information for payment and coordination of care.", 180),
           Text(14, 60, bullet \o " I authorize assignment of benefits to Prestige Primary Care for services rendered.", 180),
           Text(14, 74, IF d.initialPolicies THEN "Initialed: " \o checkGlyph
                        ELSE "Initials: ____________", 0)>>),
      signatureBlock(d, 90) >>)

\* [..].filter(Boolean).join(", ")
RECURSIVE joinComma(_)
joinComma(ss) ==
    IF ss = <<>> THEN ""
    ELSE IF Len(ss) = 1 THEN ss[1]
    ELSE ss[1] \o ", " \o joinComma(Tail(ss))

\* `${idx+1}. ${c.name||emDash}  |  ${c.relationship||emDash}  |  ${c.phone||emDash}`
contactLine(c, idx) ==
    ToString(idx + 1) \o ". " \o or(get(c, "name"), emDash) \o "  |  "
    \o or(get(c, "relationship"), emDash) \o "  |  " \o or(get(c, "phone"), emDash)

buildReleaseInfoPDF_fallback(d) ==
    LET list == d.authorizedContacts
        vm == (IF d.mayContact.phones.home THEN <<"Home">> ELSE <<>>)
              \o (IF d.mayContact.phones.cell THEN <<"Cell">> ELSE <<>>)
              \o (IF d.mayContact.phones.work THEN <<"Work">> ELSE <<>>)
    IN
    run(<<
      Ok(pdfHeader("Release of Confidential Information (POC)")),
      Ok(line(36, "May contact spouse:", IF d.mayContact.spouse THEN "Yes" ELSE "No")),
      Ok(line(44, "May contact children:", IF d.mayContact.children THEN "Yes" ELSE "No")),
      Ok(line(52, "Voicemail permissions:", or(joinComma(vm), emDash))),
      Ok(line(60, "Other contact:", or(d.mayContact.other, emDash))),
      Ok(<<Text(14, 72, "Authorized people to receive records/billing", 0)>>),
      Ok([i \in 1..Len(list) |-> Text(14, 78 + 6 * (i - 1), contactLine(list[i], i - 1), 0)]),
      signatureBlock(d, 90 + 6 * Len(list)) >>)

buildPrivacyAckPDF_fallback(d) ==
    run(<<
      Ok(pdfHeader("Acknowledgement of Receipt of Privacy Notice (POC)")),
      Ok(<<Text(14, 36, ackLine(d), 180)>>),
      signatureBlock(d, 54) >>)

buildCodeOfConductPDF_fallback(d) ==
    run(<<
      Ok(pdfHeader("Patient Code of Conduct (POC acknowledgment)")),
      Ok(<<Text(14, 36, bullet \o " Treat staff and patients with respect; no abusive, discriminatory, or threatening behavior.", 180),
           Text(14, 44, bullet \o " Follow clinic policies, instructions, and safety rules.", 180),
           Text(14, 52, bullet \o " Maintain privacy for yourself and others; no recording without consent.", 180),
           Text(14, 60, bullet \o " Financial responsibility: keep contact/insurance info current and pay balances promptly.", 180),
           Text(14, 74, "Acknowledged: " \o (IF d.ackCodeOfConduct THEN "Yes" ELSE "No"), 0)>>),
      signatureBlock(d, 90) >>)

\* build<Type>PDF_fallback(d)
buildPDF_fallback(t, d) ==
    CASE t = 1 -> buildRegistrationPDF_fallback(d)
      [] t = 2 -> buildHealthHistoryPDF_fallback(d)
      [] t = 3 -> buildFinancialPolicyPDF_fallback(d)
      [] t = 4 -> buildReleaseInfoPDF_fallback(d)
      [] t = 5 -> buildPrivacyAckPDF_fallback(d)
      [] t = 6 -> buildCodeOfConductPDF_fallback(d)

---------------------------------------------------------------------------
(* Wizard actions *)

next_unclamped ==
    /\ view.step < total
    /\ step' = step + 1
    /\ UNCHANGED <<data, view, pass, mrg, informed, env, fill>>

\* Continue: rendered while step < total; setStep(s => Math.min(total, s + 1))
next ==
    /\ view.step < total
    /\ step' = Min(total, step + 1)
    /\ UNCHANGED <<data, view, pass, mrg, informed, env, fill>>

\* Back: disabled while step === 1; setStep(s => Math.max(1, s - 1))
prev ==
    /\ view.step # 1
    /\ step' = Max(1, step - 1)
    /\ UNCHANGED <<data, view, pass, mrg, informed, env, fill>>

\* React re-renders App with the current state
Render ==
    /\ view # [step |-> step, data |-> data]
    /\ view' = [step |-> step, data |-> data]
    /\ UNCHANGED <<step, data, pass, mrg, informed, env, fill>>

AddPerson ==
    /\ view.step = 4
    /\ Len(view.data.authorizedContacts) < MaxContacts
    /\ data' = update(data, [authorizedContacts |->
                   Append(view.data.authorizedContacts, emptyContact)])
    /\ UNCHANGED <<step, view, pass, mrg, informed, env, fill>>

RemoveLast ==
    /\ view.step = 4
    /\ CanRemove(view.data.authorizedContacts)
    /\ data' = update(data, [authorizedContacts |->
                   sliceLast(view.data.authorizedContacts)])
    /\ UNCHANGED <<step, view, pass, mrg, informed, env, fill>>

EditContact ==
    /\ view.step = 4
    /\ \E i \in 1..Len(view.data.authorizedContacts) :
       \E field \in {"name", "relationship", "phone"} :
       \E v \in Strs :
          data' = update(data, [authorizedContacts |->
                      setContact(view.data.authorizedContacts, i, field, v)])
    /\ UNCHANGED <<step, view, pass, mrg, informed, env, fill>>

---------------------------------------------------------------------------
(* Generation actions *)

\* One pass is followed at a time: a click is taken once the previous pass
\* and all its builds have settled (passes share no state).
PassSettled ==
    /\ pass.pc \in {"idle", "done", "failed"}
    /\ \A t \in DocTypes : ~Pending(pass.b[t])

\* React has committed the updates of the earlier events: it flushes the
\* updates of a click before the browser dispatches the next one
Committed == view = [step |-> step, data |-> data]

\* The two download buttons are rendered by StepNav and by the step-6 card,
\* both only when step === total
ClickZip ==
    /\ view.step = total
    /\ Committed
    /\ PassSettled
    /\ pass' = [IdlePass EXCEPT !.kind = "zip", !.pc = "building",
                                !.trig = view.data, !.snap = view.data,
                                !.env0 = env,
                                !.b[1].pc = "fetch"]
    /\ mrg' = IdleMerge
    /\ UNCHANGED <<step, data, view, informed, env, fill>>

ClickPacket ==
    /\ view.step = total
    /\ Committed
    /\ PassSettled
    /\ pass' = [IdlePass EXCEPT !.kind = "packet", !.pc = "building",
                                !.trig = view.data, !.snap = view.data,
                                !.env0 = env,
                                !.b = [t \in DocTypes |-> [IdleBuild EXCEPT !.pc = "fetch"]],
                                !.vals = [t \in DocTypes |-> NoDoc]]
    /\ mrg' = IdleMerge
    /\ UNCHANGED <<step, data, view, informed, env, fill>>

\* The record object of the pass is the object held by React until an
\* update replaces it; DEBUG and the field maps are the module's.
Touch(p) ==
    /\ data' = IF data = pass.snap THEN recordAfter(data) ELSE data
    /\ env' = envAfter(env)
    /\ pass' = [p EXCEPT !.snap = recordAfter(pass.snap)]

\* await fetchTemplate(path) settles in build t
FetchSettle(t) ==
    /\ pass.b[t].pc = "fetch"
    /\ \E o \in FetchOutcomes :
         LET bytes == fetchTemplate(o)
             b0 == [pass.b[t] EXCEPT !.got = o]
             nb == IF bytes = "null"
                   THEN orchestrate(t, pass.snap, [b0 EXCEPT !.ret = "null"])
                   ELSE [b0 EXCEPT !.pc = "fill"]
         IN  Touch(onSettle([pass EXCEPT !.b[t] = nb], t))
    /\ UNCHANGED <<step, view, mrg, informed, fill>>

\* PDFDocument.load(bytes) and the rest of the fill in build t
LoadAndFill(t) ==
    /\ pass.b[t].pc = "fill"
    /\ LET r == fillLoaded(t, pass.snap, pass.b[t].got, env)
           nb == orchestrate(t, pass.snap,
                     [pass.b[t] EXCEPT !.ret = r.ret, !.err = r.err, !.doc = r.doc])
       IN  Touch(onSettle([pass EXCEPT !.b[t] = nb], t))
    /\ UNCHANGED <<step, view, mrg, informed, fill>>

\* zip.generateAsync and the download of the archive
ZipDownload ==
    /\ pass.kind = "zip"
    /\ pass.pc = "building"
    /\ Len(pass.vals) = 6
    /\ pass' = [pass EXCEPT !.pc = "done",
                            !.file = [kind |-> "zip", pages |-> <<>>, entries |-> pass.vals]]
    /\ UNCHANGED <<step, data, view, mrg, informed, env, fill>>

\* Promise.all fulfils: mergeToPacket(docs) is called
AllResolved ==
    /\ pass.kind = "packet"
    /\ pass.pc = "building"
    /\ \A t \in DocTypes : pass.b[t].pc = "done"
    /\ pass' = [pass EXCEPT !.pc = "merging"]
    /\ mrg' = [pc |-> "run", docs |-> pass.vals, k |-> 1, out |-> <<>>]
    /\ UNCHANGED <<step, data, view, informed, env, fill>>

MergeStep ==
    /\ mrg.pc = "run"
    /\ mrg.k <= Len(mrg.docs)
    /\ mrg' = mergeIter(mrg)
    /\ UNCHANGED <<step, data, view, pass, informed, env, fill>>

\* return await out.save()
MergeSave ==
    /\ mrg.pc = "run"
    /\ mrg.k > Len(mrg.docs)
    /\ mrg' = [mrg EXCEPT !.pc = "done"]
    /\ UNCHANGED <<step, data, view, pass, informed, env, fill>>

\* generateSinglePacket after await mergeToPacket(docs): the download, or
\* the rejection leaving the handler (there is no catch)
AfterMerge ==
    /\ pass.pc = "merging"
    /\ mrg.pc \in {"done", "failed"}
    /\ pass' = IF mrg.pc = "done"
               THEN [pass EXCEPT !.pc = "done",
                                 !.file = [kind |-> "packet", pages |-> mrg.out,
                                           entries |-> <<>>]]
               ELSE [pass EXCEPT !.pc = "failed", !.err = "merge"]
    /\ UNCHANGED <<step, data, view, mrg, informed, env, fill>>

---------------------------------------------------------------------------
(* Specifications *)

InitUI ==
    /\ step = 1
    /\ data = emptyData
    /\ view = [step |-> 1, data |-> emptyData]
    /\ pass = IdlePass
    /\ mrg = IdleMerge
    /\ informed = FALSE
    /\ env = ProdEnv
    /\ fill = IdleFill

NextUI == next \/ prev \/ Render \/ AddPerson \/ RemoveLast \/ EditContact

SpecUI == InitUI /\ [][NextUI]_vars

\* The wizard's navigation with its two download buttons; the contacts are
\* added and removed but not typed in, and the pass a click starts is not
\* followed
NextNav ==
    next \/ prev \/ Render \/ AddPerson \/ RemoveLast \/ ClickZip \/ ClickPacket

SpecNav == InitUI /\ [][NextNav]_vars

Init ==
    /\ step = total
    /\ data \in GenRecords
    /\ view = [step |-> total, data |-> data]
    /\ pass = IdlePass
    /\ mrg = IdleMerge
    /\ informed = FALSE
    /\ env \in Envs
    /\ <<data, env>> \in GenInputs
    /\ fill = IdleFill

Next ==
    \/ ClickZip
    \/ ClickPacket
    \/ \E t \in DocTypes : FetchSettle(t)
    \/ \E t \in DocTypes : LoadAndFill(t)
    \/ ZipDownload
    \/ AllResolved
    \/ MergeStep
    \/ MergeSave
    \/ AfterMerge

Spec == Init /\ [][Next]_vars

\* The inputs of mergeToPacket: unparseable bytes, or a document of 1..MaxPages pages
MergeInputs(i) ==
    {[NoDoc EXCEPT !.t = i, !.via = "junk"]}
    \cup {[NoDoc EXCEPT !.ok = TRUE, !.t = i, !.via = "input", !.pages = PagesOf(i, n)]
            : n \in 1..MaxPages}

RECURSIVE DocSeqs(_)
DocSeqs(n) ==
    IF n = 0 THEN {<<>>}
    ELSE {Append(s, d) : s \in DocSeqs(n - 1), d \in MergeInputs(n)}

InitMerge ==
    /\ step = total
    /\ data = emptyData
    /\ view = [step |-> total, data |-> emptyData]
    /\ \E n \in 0..MaxDocs : \E ds \in DocSeqs(n) :
         /\ pass = [IdlePass EXCEPT !.kind = "packet", !.pc = "merging", !.vals = ds]
         /\ mrg = [pc |-> "run", docs |-> ds, k |-> 1, out |-> <<>>]
    /\ informed = FALSE
    /\ env = ProdEnv
    /\ fill = IdleFill

SpecMerge == InitMerge /\ [][Next]_vars

\* One call of fill<Type>WithTemplate past its load, or of
\* build<Type>PDF_fallback, on a record, a flag and a field map
john == [name |-> "John Doe", relationship |-> "Spouse", phone |-> "555-1234"]

\* A contact with its relationship only
partialContact == [name |-> "", relationship |-> "Spouse", phone |-> ""]

RECURSIVE ContactLists(_)
ContactLists(n) ==
    IF n = 0 THEN {<<>>}
    ELSE {Append(l, c) : l \in ContactLists(n - 1),
                         c \in {emptyContact, john, partialContact}}

\* The boolean fields of the record, as patches of one field
Flags ==
    {"initialPolicies", "ackPrivacy", "ackCodeOfConduct",
     "spouse", "children", "home", "cell", "work"}

withFlags(d, on) ==
    [d EXCEPT !.initialPolicies = "initialPolicies" \in on,
              !.ackPrivacy = "ackPrivacy" \in on,
              !.ackCodeOfConduct = "ackCodeOfConduct" \in on,
              !.mayContact = [spouse |-> "spouse" \in on,
                              children |-> "children" \in on,
                              phones |-> [home |-> "home" \in on,
                                          cell |-> "cell" \in on,
                                          work |-> "work" \in on],
                              other |-> d.mayContact.other]]

\* The free-text fields printed by some document
TextFields ==
    {"sex", "maritalStatus", "ssn", "email", "phoneCell", "phoneHome",
     "address", "city", "state", "zip", "employer", "employerPhone",
     "insuredPerson", "insuredDob", "primaryInsurance", "memberId", "groupNo",
     "copay", "emergencyName", "emergencyRelation", "emergencyHome",
     "emergencyWork", "medicalProblems", "surgeries", "hospitalizations",
     "medications", "allergies", "exerciseLevel", "diet", "alcohol",
     "tobacco", "drugs", "otherProblems"}

withText(d, fs, v) == [f \in DOMAIN d |-> IF f \in fs THEN v ELSE d[f]]

\* The records of SpecFill: the empty record and records that fill one group
\* of fields, the others left empty
FillRecords ==
    {[emptyIntake EXCEPT !.firstName = fn, !.lastName = ln, !.middle = mi, !.dob = db]
        : fn \in {"", "Jane"}, ln \in {"", "Doe"}, mi \in {"", "Q"},
          db \in {"", "1980-01-01"}}
    \cup {withFlags(emptyIntake, on) : on \in {{}, Flags} \cup {{f} : f \in Flags}}
    \cup {[emptyIntake EXCEPT !.authorizedContacts = l]
            : l \in UNION {ContactLists(n) : n \in 1..MaxFillContacts}}
    \cup {[emptyIntake EXCEPT !.signatureDataUrl = sg, !.signatureDate = sd]
            : sg \in Sigs, sd \in {"", "2025-03-01"}}
    \cup {withText(emptyIntake, {f}, "x") : f \in TextFields}
    \cup {withText(emptyIntake, TextFields, "x")}
    \cup {[emptyIntake EXCEPT !.mayContact.other = "x"]}

RECURSIVE SubsetsUpTo(_, _)
SubsetsUpTo(U, n) ==
    IF n = 0 THEN {{}}
    ELSE LET less == SubsetsUpTo(U, n - 1)
         IN  less \cup {ms \cup {x} : ms \in less, x \in U}

\* The maps with at most MaxMissing entries of type t taken out
MissingSets(t) ==
    SubsetsUpTo({<<t, k>> : k \in DOMAIN DeclaredMaps[t]}, MaxMissing)

\* The records followed on a map that lacks entries
CalibrationRecords ==
    {emptyIntake, withFlags(emptyIntake, Flags),
     [emptyIntake EXCEPT !.signatureDataUrl = "png"]}

InitFill ==
    /\ step = total
    /\ data = emptyData
    /\ view = [step |-> total, data |-> emptyData]
    /\ pass = IdlePass
    /\ mrg = IdleMerge
    /\ informed = FALSE
    /\ \E t \in DocTypes : \E d \in FillRecords : \E dbg \in BOOLEAN :
       \E ms \in MissingSets(t) :
         /\ ms # {} => d \in CalibrationRecords
         /\ env = [DEBUG |-> dbg, missing |-> ms]
         /\ fill = [pc |-> "call", t |-> t, rec |-> d, path |-> "none",
                    threw |-> FALSE, ops |-> <<>>]

\* fill<Type>WithTemplate(data) with the template present
FillTemplate ==
    /\ fill.pc = "call"
    /\ LET r == fillWithTemplate(fill.t, fill.rec, env)
       IN  fill' = [fill EXCEPT !.pc = "returned", !.path = "template",
                                !.threw = r.threw, !.ops = r.ops]
    /\ env' = envAfter(env)
    /\ UNCHANGED <<step, data, view, pass, mrg, informed>>

\* build<Type>PDF_fallback(data), the template absent
BuildFallback ==
    /\ fill.pc = "call"
    /\ LET r == buildPDF_fallback(fill.t, fill.rec)
       IN  fill' = [fill EXCEPT !.pc = "returned", !.path = "fallback",
                                !.threw = r.threw, !.ops = r.ops]
    /\ env' = envAfter(env)
    /\ UNCHANGED <<step, data, view, pass, mrg, informed>>

NextFill == FillTemplate \/ BuildFallback

SpecFill == InitFill /\ [][NextFill]_vars

---------------------------------------------------------------------------
(* Claims *)

Settled(b) == b.pc \in {"done", "failed"}

BadSig(d) == d.signatureDataUrl # "" /\ ~IsPng(d.signatureDataUrl)

\* C1: every run of a per-type orchestrator ends by returning a document,
\* with or without a template; none ends in a failure.
C1_EveryBuildReturns ==
    \A t \in DocTypes : pass.b[t].pc # "failed"

\* C2: every template retrieval failure (resource missing, fetch failure,
\* malformed bytes) is recovered by the fallback builder and no error reaches
\* the caller.  A failure of the fallback builder's own signature embedding
\* is set aside here: it is the subject of C7.
C2_RetrievalFailureFallsBack ==
    \A t \in DocTypes :
        LET b == pass.b[t] IN
        (b.got \in {"missing", "neterr", "junk"} /\ b.pc # "fill" /\ b.err # "addImage")
            => (b.pc = "done" /\ b.fb /\ b.doc.via = "fallback")

\* C3: in one call of an orchestrator the fallback builder is invoked if and
\* only if the template fill returned null; when the fill returned bytes the
\* fallback builder is not invoked and the bytes are the result.
C3_PathsExclusive ==
    \A t \in DocTypes :
        LET b == pass.b[t] IN
        /\ b.fb <=> (b.ret = "null")
        /\ b.ret = "bytes" => (~b.fb /\ b.pc = "done" /\ b.doc.via = "template")
        /\ b.fb /\ b.pc = "done" => b.doc.via = "fallback"

C3_Witness ==
    \E t, u \in DocTypes :
        /\ pass.b[t].ret = "bytes" /\ pass.b[t].pc = "done"
        /\ pass.b[u].ret = "null" /\ pass.b[u].fb /\ pass.b[u].pc = "done"

RECURSIVE SumPages(_)
SumPages(ds) ==
    IF ds = <<>> THEN 0 ELSE Len(ds[1].pages) + SumPages(Tail(ds))

PageBefore(p, q) == p[1] < q[1] \/ (p[1] = q[1] /\ p[2] < q[2])

\* C4: the packet returned by mergeToPacket for parseable inputs has as many
\* pages as the inputs together, the pages of input i before those of input j
\* for i < j, and the pages of one input in their original order.
C4_MergeConcatenates ==
    mrg.pc = "done" =>
        /\ Len(mrg.out) = SumPages(mrg.docs)
        /\ \A i \in 1..Len(mrg.docs) : \A j \in 1..Len(mrg.docs[i].pages) :
               \E p \in 1..Len(mrg.out) : mrg.out[p] = mrg.docs[i].pages[j]
        /\ \A p, q \in 1..Len(mrg.out) : p < q => PageBefore(mrg.out[p], mrg.out[q])

C4_Witness ==
    /\ mrg.pc = "done"
    /\ Len(mrg.docs) = 3
    /\ \A i \in 1..3 : mrg.docs[i].via = "input" /\ Len(mrg.docs[i].pages) = 2
    /\ Len(mrg.out) = 6

HasCorrupt(ds) == \E i \in 1..Len(ds) : ~ds[i].ok

\* C5: when some input of mergeToPacket is unparseable, the merge fails at
\* that input, the failure reaches the caller, and nothing is returned or
\* downloaded: no packet made of the pages before the corrupt input.
C5_CorruptInputFailsWhole ==
    HasCorrupt(mrg.docs) =>
        /\ mrg.pc # "done"
        /\ (\E i \in 1..(mrg.k - 1) : ~mrg.docs[i].ok) => mrg.pc = "failed"
        /\ mrg.pc = "failed" => mrg.out = <<>>
        /\ pass.file.kind = "none"
        /\ pass.pc # "done"
        /\ pass.pc = "failed" => pass.err = "merge"

C5_Witness ==
    /\ Len(mrg.docs) = 3
    /\ mrg.docs[1].ok /\ ~mrg.docs[2].ok /\ mrg.docs[3].ok
    /\ mrg.pc = "failed"
    /\ pass.pc = "failed" /\ pass.err = "merge"

\* C6: generateSinglePacket issues the six builds together, and whatever the
\* order in which they complete, mergeToPacket is started only after all six
\* have completed and receives them in the declared type order.
C6_FixedOrderJoin ==
    pass.kind = "packet" =>
        /\ Len(pass.vals) = 6
        /\ \A t \in DocTypes : pass.b[t].pc # "idle"
        /\ mrg.pc # "idle" =>
              /\ Len(mrg.docs) = 6
              /\ \A t \in DocTypes :
                    /\ pass.b[t].pc = "done"
                    /\ mrg.docs[t] = pass.b[t].doc
                    /\ mrg.docs[t].t = t

C6_Witness ==
    /\ pass.kind = "packet"
    /\ pass.ooo
    /\ mrg.pc = "run"
    /\ Len(mrg.docs) = 6

\* C7: with a signature payload that is present but does not decode as an
\* image, every document type still yields a document without a signature
\* image and without a failure, on the template path and on the fallback
\* path.  A failure to load a malformed template is set aside here: it is
\* the subject of C2.
C7_CorruptSignatureTolerated ==
    \A t \in DocTypes :
        LET b == pass.b[t] IN
        (BadSig(pass.snap) /\ Settled(b) /\ b.err # "load")
            => (b.pc = "done" /\ ~b.doc.sig)

\* Both download buttons are rendered and a click starts a pass
ZipAvailable == view.step = total /\ PassSettled

C9_AtLeastOneContact ==
    /\ Len(data.authorizedContacts) >= 1
    /\ Len(view.data.authorizedContacts) >= 1

C9_Witness ==
    /\ view.step = 4
    /\ Len(view.data.authorizedContacts) = 2
    /\ Len(data.authorizedContacts) = 1
    /\ CanRemove(view.data.authorizedContacts)

\* C10: a generation pass leaves the intake record as it was when the pass
\* was triggered, and every document of the pass is built from that record.
C10_RecordUnchanged ==
    pass.kind # "none" =>
        /\ pass.snap = pass.trig
        /\ data = pass.trig
        /\ \A t \in DocTypes : pass.b[t].pc = "done" => pass.b[t].doc.from = pass.trig
        /\ \A i \in 1..Len(pass.file.entries) : pass.file.entries[i].from = pass.trig

C10_Witness ==
    /\ pass.kind = "zip"
    /\ pass.pc = "done"
    /\ pass.trig.signatureDataUrl = "png"
    /\ Len(pass.file.entries) = 6
    /\ \E t \in DocTypes : pass.b[t].doc.via = "template"
    /\ \E t \in DocTypes : pass.b[t].doc.via = "fallback"

\* C11: the six builds of a pass share no mutable state: DEBUG and the field
\* maps are as they were when the pass was triggered, and whatever the
\* interleaving of the builds issued together by generateSinglePacket, each
\* settled build holds what the same build gives when run alone on the same
\* record with the same answer of its fetch.
C11_BuildsIndependent ==
    pass.kind # "none" =>
        /\ env = pass.env0
        /\ \A t \in DocTypes :
              Settled(pass.b[t]) =>
                  pass.b[t] = soloBuild(t, pass.trig, pass.b[t].got, pass.env0)

C11_Witness ==
    /\ pass.kind = "packet"
    /\ pass.ooo
    /\ pass.env0.DEBUG
    /\ \A t \in DocTypes : pass.b[t].pc = "done"
    /\ \E t \in DocTypes : pass.b[t].doc.via = "template" /\ pass.b[t].doc.boxes
    /\ \E t \in DocTypes : pass.b[t].doc.via = "fallback"

\* The call of a template filler has returned or thrown
Filled == fill.pc = "returned" /\ fill.path = "template"

\* The call of a fallback builder has returned or thrown
Built == fill.pc = "returned" /\ fill.path = "fallback"

\* op is drawn at the anchor a: a text or an image at (a.x, a.y), or the
\* rectangle of drawBox, two points lower
AtAnchor(op, a) == op.x = a.x /\ (op.y = a.y \/ (op.op = "rect" /\ op.y = a.y - 2))

BoolFields(d) ==
    {<<3, "initials", d.initialPolicies>>,
     <<5, "ack", d.ackPrivacy>>,
     <<6, "ack", d.ackCodeOfConduct>>,
     <<4, "spouse", d.mayContact.spouse>>,
     <<4, "children", d.mayContact.children>>,
     <<4, "vmHome", d.mayContact.phones.home>>,
     <<4, "vmCell", d.mayContact.phones.cell>>,
     <<4, "vmWork", d.mayContact.phones.work>>}

\* The texts drawn at the anchor a
TextsAt(ops, a) ==
    SelectSeq(ops, LAMBDA op : op.op = "text" /\ op.x = a.x /\ op.y = a.y)

\* C13: in every template filler each boolean field of the record draws the
\* check glyph, and only it, at its anchor when true, and no text at all at
\* its anchor when false.
C13_CheckGlyphOrNothing ==
    (Filled /\ env.missing = {}) =>
        \A bf \in BoolFields(fill.rec) :
            bf[1] = fill.t =>
                TextsAt(fill.ops, DeclaredMaps[bf[1]][bf[2]])
                    = (IF bf[3] THEN <<Text(DeclaredMaps[bf[1]][bf[2]].x,
                                            DeclaredMaps[bf[1]][bf[2]].y, checkGlyph, 0)>>
                       ELSE <<>>)

NoRect(ops) == SelectSeq(ops, LAMBDA op : op.op # "rect")

HasRect(ops) == \E i \in 1..Len(ops) : ops[i].op = "rect"

\* C14: with the debug flag off no filler draws a calibration rectangle, and
\* for every record the text, check-mark and signature draws of a filler are
\* the same sequence as with the flag on, the rectangles left out.
C14_DebugOnlyRectangles ==
    Filled =>
        LET flipped == fillWithTemplate(fill.t, fill.rec,
                                        [env EXCEPT !.DEBUG = ~env.DEBUG])
        IN  /\ ~env.DEBUG => ~HasRect(fill.ops)
            /\ NoRect(fill.ops) = NoRect(flipped.ops)
            /\ fill.threw = flipped.threw

C14_Witness ==
    /\ Filled
    /\ ~env.DEBUG
    /\ env.missing = {}
    /\ fill.t = 4
    /\ fill.rec.mayContact.spouse
    /\ fill.ops # <<>>
    /\ HasRect(fillWithTemplate(fill.t, fill.rec, [env EXCEPT !.DEBUG = TRUE]).ops)

\* Some rectangle of ops is the one drawBox draws for the anchor (x, y)
BoxedAt(ops, x, y) ==
    \E i \in 1..Len(ops) : ops[i].op = "rect" /\ ops[i].x = x /\ ops[i].y = y - 2

\* C15: with the debug flag on, every anchor at which a filler draws a text,
\* a check mark or the signature date also gets a calibration rectangle in
\* the same fill, for all six document types.
C15_EveryWrittenAnchorBoxed ==
    (Filled /\ env.DEBUG /\ env.missing = {}) =>
        \A i \in 1..Len(fill.ops) :
            fill.ops[i].op = "text" => BoxedAt(fill.ops, fill.ops[i].x, fill.ops[i].y)

\* The string drawn at (x, y), "" when no text is drawn there
ValueAt(ops, x, y) ==
    LET at == SelectSeq(ops, LAMBDA op : op.op = "text" /\ op.x = x /\ op.y = y)
    IN  IF at = <<>> THEN "" ELSE at[1].s

\* s without the label it starts with
AfterLabel(s, label) == SubSeq(s, Len(label) + 1, Len(s))

\* C16: a field drawn both by a type's template filler and by its fallback
\* builder is formatted to the same display string by both: the patient name
\* (Registration, Health History), the phone pairings, the address, the
\* employer line and the copay (Registration), and the lines of the
\* authorized contacts (Release of Information).
C16_SameFormatting ==
    (Filled /\ env.missing = {}) =>
        LET fb == buildPDF_fallback(fill.t, fill.rec).ops
            tf(k) == ValueAt(fill.ops, DeclaredMaps[fill.t][k].x, DeclaredMaps[fill.t][k].y)
            n == Len(fill.rec.authorizedContacts)
        IN  /\ fill.t \in {1, 2} =>
                  tf("name") = AfterLabel(ValueAt(fb, 14, 36), "Patient: ")
            /\ fill.t = 1 =>
                  /\ tf("phones") = ValueAt(fb, 100, 84)
                  /\ tf("address") = ValueAt(fb, 100, 92)
                  /\ tf("employer") = ValueAt(fb, 100, 100)
                  /\ tf("copay") = ValueAt(fb, 100, 158)
                  /\ tf("emergencyPhones") = ValueAt(fb, 100, 192)
            /\ fill.t = 4 =>
                  /\ n >= 1 => tf("auth1") = AfterLabel(ValueAt(fb, 14, 78), "1. ")
                  /\ n >= 2 => tf("auth2") = AfterLabel(ValueAt(fb, 14, 84), "2. ")
                  /\ n >= 3 => tf("auth3") = AfterLabel(ValueAt(fb, 14, 90), "3. ")

HasLine(ops, s) == \E i \in 1..Len(ops) : ops[i].op = "text" /\ ops[i].s = s

\* C17: with an empty middle name the Registration fallback builder emits
\* one line that is exactly `Patient: <lastName>, <firstName>`, nothing
\* before or after it (`Patient: Doe, Jane` for Jane Doe), and the DOB line
\* carries the date of birth as its value (`1980-01-01`).
C17_PatientLineExact ==
    (Built /\ fill.t = 1 /\ ~fill.threw /\ fill.rec.middle = "") =>
        /\ HasLine(fill.ops, "Patient: " \o fill.rec.lastName \o ", " \o fill.rec.firstName)
        /\ HasLine(fill.ops, "DOB:")
        /\ ValueAt(fill.ops, 100, 44) = fill.rec.dob

\* The first authorized contact of the record of the call
firstContact == fill.rec.authorizedContacts[1]

\* The Release of Information filler has run through on a record with at
\* least one authorized contact
RoiFilled ==
    /\ Filled /\ fill.t = 4 /\ ~fill.threw
    /\ Len(fill.rec.authorizedContacts) >= 1

Contains(s, sub) ==
    \E i \in 1..(Len(s) - Len(sub) + 1) : SubSeq(s, i, i + Len(sub) - 1) = sub

\* Every free-text field of d is empty, as in emptyData
AllTextEmpty(d) ==
    /\ \A f \in TextFields \cup {"firstName", "lastName", "middle", "dob",
                                  "signatureDataUrl", "signatureDate"} : d[f] = ""
    /\ d.mayContact.other = ""
    /\ d.authorizedContacts = <<emptyContact>>

\* The texts a fallback document shows for a field of the record, the fixed
\* headings, labels and statements left out
FieldTexts(t, ops) ==
    LET at(x, ys) == {ops[i].s : i \in {j \in 1..Len(ops) :
                         ops[j].op = "text" /\ ops[j].x = x /\ ops[j].y \in ys}}
    IN  CASE t = 1 -> at(100, 36..200) \cup at(14, {36})
          [] t = 2 -> at(100, {44}) \cup at(14, {36, 62, 86, 110, 134, 158,
                                                182, 188, 194, 200, 206, 224})
          [] t = 4 -> at(100, {60}) \cup at(14, {78})
          [] OTHER -> {}

\* C19: on the initial emptyData record (every free-text field empty) each
\* of the six fallback builders returns its document without failing, and
\* every empty field it prints shows as the em-dash placeholder or as an
\* empty string in its line, never as the text `undefined` or `null`.
C19_EmptyRecordBuilds ==
    (Built /\ AllTextEmpty(fill.rec)) =>
        /\ ~fill.threw
        /\ fill.ops # <<>>
        /\ \A i \in 1..Len(fill.ops) :
               fill.ops[i].op = "text" =>
                   /\ ~Contains(fill.ops[i].s, "undefined")
                   /\ ~Contains(fill.ops[i].s, "null")
        /\ FieldTexts(fill.t, fill.ops) \subseteq
               {emDash,
                "Patient: ,  ", " (cell)   (home)", ", ,  ", "  |  ", " / ",
                "Exercise: " \o emDash, "Diet: " \o emDash,
                "Alcohol: " \o emDash, "Tobacco: " \o emDash,
                "Drugs: " \o emDash,
                "1. " \o emDash \o "  |  " \o emDash \o "  |  " \o emDash}
        /\ fill.t \in {2, 4} => emDash \in FieldTexts(fill.t, fill.ops)

\* The Health History fallback builder has returned the document of the
\* empty record, em-dashes under its headings
C19_Witness ==
    /\ Built /\ fill.rec = emptyIntake /\ fill.t = 2 /\ ~fill.threw
    /\ ValueAt(fill.ops, 14, 62) = emDash

\* C20: after any sequence of Continue and Back the wizard step is in
\* 1..total (total = 6); Continue at step 6 and Back at step 1 leave the step
\* as it is; and a download (generateZip, generateSinglePacket) is started
\* only in a state whose step is 6.
C20_StepInRange ==
    /\ [](step \in 1..total)
    /\ [][ /\ (next /\ step = total) => step' = total
           /\ (prev /\ step = 1) => step' = 1
           /\ (pass.pc # "building" /\ pass'.pc = "building") => step = total ]_vars

\* Continue can be clicked with the step already at 6 (the button is of the
\* render of step 5), after a download was started at step 6
C20_Witness ==
    /\ step = total /\ view.step = total - 1
    /\ pass.pc = "building"

\* A file has been handed to the browser by the pass
Downloaded == pass.file.kind # "none"

\* C21: a file is downloaded only after all six builds of the pass have
\* completed successfully. In generateZip build t is started only when
\* builds 1..t-1 have completed, so at most one build runs at a time, and a
\* failed build i leaves builds i+1..6 unstarted and no download; in
\* generateSinglePacket a failed build leaves mergeToPacket uncalled and no
\* download.
C21_DownloadAfterAllBuilds ==
    /\ Downloaded =>
           \A t \in DocTypes : pass.b[t].pc = "done" /\ pass.b[t].doc.ok
    /\ pass.kind = "zip" =>
           /\ \A t \in DocTypes :
                  pass.b[t].pc # "idle" => \A u \in 1..(t - 1) : pass.b[u].pc = "done"
           /\ \A t \in DocTypes :
                  pass.b[t].pc = "failed" =>
                      /\ \A u \in (t + 1)..6 : pass.b[u].pc = "idle"
                      /\ ~Downloaded
           /\ mrg.pc = "idle"
    /\ pass.kind = "packet" =>
           ((\E t \in DocTypes : pass.b[t].pc = "failed") =>
               /\ mrg.pc = "idle"
               /\ pass.pc \notin {"merging", "done"}
               /\ ~Downloaded)

\* generateZip has stopped at its failed third build, the two before it
\* completed, the three after it never started
C21_Witness ==
    /\ pass.kind = "zip" /\ pass.pc = "failed"
    /\ pass.b[1].pc = "done" /\ pass.b[2].pc = "done"
    /\ pass.b[3].pc = "failed"
    /\ pass.b[4].pc = "idle" /\ ~Downloaded

\* The texts of ops drawn in column x, in drawing order
Column(ops, x) == SelectSeq(ops, LAMBDA op : op.op = "text" /\ op.x = x)

\* The three anchors auth1, auth2, auth3 of MAP_ROI, as y of column 50
AuthY == <<MAP_ROI["auth1"].y, MAP_ROI["auth2"].y, MAP_ROI["auth3"].y>>

\* `<name> | <relationship> | <phone>` of c, its ends trimmed
joinedContact(c) ==
    trim(c.name \o " | " \o c.relationship \o " | " \o c.phone)

\* C22: the Release of Information template filler writes exactly three
\* authorized-contact lines, at auth1, auth2 and auth3, whatever the length
\* of authorizedContacts: the contacts at index 3 and beyond are not written
\* (the document is that of the first three), and a contact missing at
\* index 0..2 is written as the separators alone; the fallback builder
\* writes one numbered line for each contact of the whole list.
C22_ThreeContactLines ==
    LET list == fill.rec.authorizedContacts
        n == Len(list)
    IN
    /\ (Filled /\ fill.t = 4 /\ ~fill.threw) =>
          LET col == Column(fill.ops, 50) IN
          /\ Len(col) = 3
          /\ \A i \in 1..3 :
                 /\ col[i].y = AuthY[i]
                 /\ col[i].s = IF i <= n THEN joinedContact(list[i]) ELSE "|  |"
          /\ fill.ops =
                 fillReleaseInfoWithTemplate(
                     [fill.rec EXCEPT !.authorizedContacts = SubSeq(list, 1, Min(3, n))],
                     env).ops
    /\ (Built /\ fill.t = 4 /\ ~fill.threw) =>
          LET col == SelectSeq(Column(fill.ops, 14),
                               LAMBDA op : op.y >= 78 /\ op.y < 78 + 6 * n)
          IN
          /\ Len(col) = n
          /\ \A i \in 1..n :
                 /\ col[i].y = 78 + 6 * (i - 1)
                 /\ col[i].s = ToString(i) \o ". "
                        \o (IF list[i].name = "" THEN emDash ELSE list[i].name)
                        \o "  |  "
                        \o (IF list[i].relationship = "" THEN emDash
                            ELSE list[i].relationship)
                        \o "  |  "
                        \o (IF list[i].phone = "" THEN emDash ELSE list[i].phone)

\* The filler has returned on a list of four contacts whose fourth, the only
\* John Doe, is in none of its texts
C22_Witness ==
    /\ Filled /\ fill.t = 4 /\ ~fill.threw
    /\ fill.rec.authorizedContacts =
           <<partialContact, emptyContact, emptyContact, john>>
    /\ \A i \in 1..Len(fill.ops) : ~Contains(fill.ops[i].s, "John Doe")
    /\ Len(Column(fill.ops, 50)) = 3

====
